---- MODULE Spec2Model ----
(***************************************************************************)
(* bitatui: the interactive session loop of src/src/main.rs.               *)
(*                                                                         *)
(* One loop iteration = draw, poll for an event, handle it.  A Rust String *)
(* is modelled as the sequence of its UTF-8 bytes (0..255), because the    *)
(* code indexes the address buffer by byte (String::len, String::insert,   *)
(* String::remove).  A character is its Unicode code point.                *)
(***************************************************************************)
EXTENDS Integers, Sequences, FiniteSets, TLC

(***************************************************************************)
(* Bounds of the model.                                                    *)
(***************************************************************************)
\* longest address buffer (in bytes) that typing may produce
MaxAddrLen == 3
\* longest address book that new+save may produce
MaxBook == 2

\* the output panels the render is tried on have at most MaxRender lines
MaxRender == 3

(***************************************************************************)
(* Strings: Rust std semantics on UTF-8 byte sequences.                    *)
(***************************************************************************)
Min(a, b) == IF a <= b THEN a ELSE b

Max(a, b) == IF a >= b THEN a ELSE b

\* char::len_utf8
LenUtf8(c) == IF c < 128 THEN 1 ELSE IF c < 2048 THEN 2 ELSE IF c < 65536 THEN 3 ELSE 4

\* char::encode_utf8, for the code points below U+0800
EncodeUtf8(c) ==
    IF c < 128 THEN <<c>> ELSE <<192 + (c \div 64), 128 + (c % 64)>>

\* str::is_char_boundary: index 0, index len, or a byte that is not a
\* continuation byte (0x80..0xBF)
IsCharBoundary(s, idx) ==
    \/ idx = 0
    \/ idx = Len(s)
    \/ /\ idx > 0
       /\ idx < Len(s)
       /\ (s[idx + 1] < 128 \/ s[idx + 1] >= 192)

\* width in bytes of the character whose first byte is b
Utf8Width(b) == IF b < 128 THEN 1 ELSE IF b < 224 THEN 2 ELSE IF b < 240 THEN 3 ELSE 4

\* String::insert(idx, ch): panics unless idx is a char boundary
InsertPanics(s, idx) == ~IsCharBoundary(s, idx)

StringInsert(s, idx, c) ==
    SubSeq(s, 1, idx) \o EncodeUtf8(c) \o SubSeq(s, idx + 1, Len(s))

\* String::remove(idx): panics when idx is past the last character or not on
\* a char boundary; removes the whole character that starts at byte idx
RemovePanics(s, idx) == idx >= Len(s) \/ ~IsCharBoundary(s, idx)

StringRemove(s, idx) ==
    SubSeq(s, 1, idx) \o SubSeq(s, idx + 1 + Utf8Width(s[idx + 1]), Len(s))

\* char::is_control (Cc): U+0000..U+001F and U+007F..U+009F
IsControl(c) == c < 32 \/ (c >= 127 /\ c < 160)

\* char::is_whitespace on the ASCII range: tab, LF, VT, FF, CR, space
IsWhitespace(b) == b \in {9, 10, 11, 12, 13, 32}

RECURSIVE TrimStart(_)
TrimStart(s) ==
    IF s # <<>> /\ IsWhitespace(Head(s)) THEN TrimStart(Tail(s)) ELSE s

RECURSIVE TrimEnd(_)
TrimEnd(s) ==
    IF s # <<>> /\ IsWhitespace(s[Len(s)])
    THEN TrimEnd(SubSeq(s, 1, Len(s) - 1))
    ELSE s

\* str::trim
Trim(s) == TrimEnd(TrimStart(s))

\* one line of str::lines: the terminating "\n" or "\r\n" is stripped
StripLineEnd(l) ==
    IF l # <<>> /\ l[Len(l)] = 13 THEN SubSeq(l, 1, Len(l) - 1) ELSE l

\* str::lines: split at every "\n"; a final line need not end in "\n" and an
\* empty final piece is no line.  cur is the line being collected.
RECURSIVE LinesFrom(_, _)
LinesFrom(s, cur) ==
    IF s = <<>>
    THEN IF cur = <<>> THEN <<>> ELSE <<cur>>
    ELSE IF Head(s) = 10
         THEN <<StripLineEnd(cur)>> \o LinesFrom(Tail(s), <<>>)
         ELSE LinesFrom(Tail(s), Append(cur, Head(s)))

Lines(s) == LinesFrom(s, <<>>)

\* str::split_whitespace: the non-empty runs of non-whitespace bytes
RECURSIVE SplitFrom(_, _)
SplitFrom(s, cur) ==
    IF s = <<>>
    THEN IF cur = <<>> THEN <<>> ELSE <<cur>>
    ELSE IF IsWhitespace(Head(s))
         THEN (IF cur = <<>> THEN <<>> ELSE <<cur>>) \o SplitFrom(Tail(s), <<>>)
         ELSE SplitFrom(Tail(s), Append(cur, Head(s)))

SplitWhitespace(s) == SplitFrom(s, <<>>)

\* str::parse::<u64> on a digit string; -1 stands for Err
RECURSIVE DigitsValue(_, _)
DigitsValue(s, acc) ==
    IF s = <<>> THEN acc
    ELSE IF Head(s) \in 48..57
         THEN DigitsValue(Tail(s), 10 * acc + (Head(s) - 48))
         ELSE -1

ParseU64(s) ==
    LET d == IF s # <<>> /\ Head(s) = 43 THEN Tail(s) ELSE s
    IN  IF d = <<>> THEN -1 ELSE DigitsValue(d, 0)

\* String::from_utf8_lossy: valid UTF-8 is kept, every byte that does not
\* start or continue a well-formed sequence becomes U+FFFD (EF BF BD)
RECURSIVE FromUtf8Lossy(_)
FromUtf8Lossy(b) ==
    IF b = <<>> THEN <<>>
    ELSE LET w == Utf8Width(b[1])
             wellFormed ==
                 /\ (b[1] < 128 \/ (b[1] >= 194 /\ b[1] <= 244))
                 /\ Len(b) >= w
                 /\ \A i \in 2..w : b[i] >= 128 /\ b[i] < 192
         IN  IF wellFormed
             THEN SubSeq(b, 1, w) \o FromUtf8Lossy(SubSeq(b, w + 1, Len(b)))
             ELSE <<239, 191, 189>> \o FromUtf8Lossy(Tail(b))

(***************************************************************************)
(* Results: Ok(val), Err(val), or a panic of the callee.                   *)
(***************************************************************************)
Ok(v) == [tag |-> "Ok", val |-> v]

Err(e) == [tag |-> "Err", val |-> e]

Panic == [tag |-> "Panic", val |-> <<>>]

(***************************************************************************)
(* The query executor, src/src/cli.rs.  An outcome is what the spawned     *)
(* bitcoin-cli process does: it cannot be spawned (text = the io error),   *)
(* it exits with success (text = stdout) or with a non-zero status         *)
(* (text = stderr).                                                        *)
(***************************************************************************)
\* "Error: "
ErrorPrefix == <<69, 114, 114, 111, 114, 58, 32>>

\* "uptime"
CmdUptime == <<117, 112, 116, 105, 109, 101>>

\* "getblockcount"
CmdGetBlockCount == <<103, 101, 116, 98, 108, 111, 99, 107, 99, 111, 117, 110, 116>>

\* "getbestblockhash"
CmdGetBestBlockHash ==
    <<103, 101, 116, 98, 101, 115, 116, 98, 108, 111, 99, 107, 104, 97, 115, 104>>

\* "getwalletinfo"
CmdGetWalletInfo == <<103, 101, 116, 119, 97, 108, 108, 101, 116, 105, 110, 102, 111>>

\* "getnewaddress"
CmdGetNewAddress == <<103, 101, 116, 110, 101, 119, 97, 100, 100, 114, 101, 115, 115>>

SpawnFailed(e) == [status |-> "spawn_failed", text |-> e]

ExitSuccess(stdout) == [status |-> "success", text |-> stdout]

ExitNonZero(stderr) == [status |-> "nonzero", text |-> stderr]

\* the record of one call of run_bitcoin_cli: the command and the outcome
Call(command, o) == [cmd |-> command, status |-> o.status, text |-> o.text]

\* run_bitcoin_cli(command) when the process behaves as outcome o
run_bitcoin_cli(command, o) ==
    IF SplitWhitespace(command) = <<>>
    THEN Panic                                  \* parts.next().unwrap()
    ELSE IF o.status = "spawn_failed"
         THEN Err(o.text)                       \* .output()?
         ELSE IF o.status = "success"
              THEN Ok(FromUtf8Lossy(o.text))
              ELSE Ok(ErrorPrefix \o FromUtf8Lossy(o.text))

(***************************************************************************)
(* Node and wallet info, src/src/node.rs.  A formatted text is modelled as *)
(* the tuple of the values format! interpolates.                           *)
(***************************************************************************)
\* format_uptime(seconds)
format_uptime(seconds) ==
    LET minutes == seconds \div 60
        hours == minutes \div 60
        days == hours \div 24
    IN  IF days > 0 THEN <<days, "day(s)", hours % 24, "hour(s)">>
        ELSE IF hours > 0 THEN <<hours, "hour(s)", minutes % 60, "minute(s)">>
        ELSE <<minutes, "minute(s)">>

\* fetch_node_info() when the three executor calls behave as o1, o2, o3;
\* res is the function's result, calls the commands it ran
fetch_node_info(o1, o2, o3) ==
    LET r1 == run_bitcoin_cli(CmdUptime, o1)
        uptime_str == IF r1.tag = "Ok" THEN r1.val ELSE <<48>>
        parsed == ParseU64(Trim(uptime_str))
        uptime == IF parsed < 0 THEN 0 ELSE parsed
        r2 == run_bitcoin_cli(CmdGetBlockCount, o2)
        r3 == run_bitcoin_cli(CmdGetBestBlockHash, o3)
        log == <<Call(CmdUptime, o1), Call(CmdGetBlockCount, o2),
                 Call(CmdGetBestBlockHash, o3)>>
    IN  IF r2.tag # "Ok"
        THEN [res |-> r2, calls |-> SubSeq(log, 1, 2)]
        ELSE IF r3.tag # "Ok"
             THEN [res |-> r3, calls |-> log]
             ELSE [res |-> Ok(<<"Uptime: ", format_uptime(uptime),
                                "Block Count: ", Trim(r2.val),
                                "Best Block Hash:", Trim(r3.val)>>),
                   calls |-> log]

\* serde_json::from_str::<Value> on a text made of digits, letters that spell
\* no JSON literal, ':' and whitespace: it parses exactly when the text, JSON
\* whitespace aside, is one number literal without a leading zero
IsJsonWhitespace(b) == b \in {9, 10, 13, 32}

RECURSIVE JsonTrimStart(_)
JsonTrimStart(s) ==
    IF s # <<>> /\ IsJsonWhitespace(Head(s)) THEN JsonTrimStart(Tail(s)) ELSE s

RECURSIVE JsonTrimEnd(_)
JsonTrimEnd(s) ==
    IF s # <<>> /\ IsJsonWhitespace(s[Len(s)])
    THEN JsonTrimEnd(SubSeq(s, 1, Len(s) - 1))
    ELSE s

JsonParses(text) ==
    LET t == JsonTrimEnd(JsonTrimStart(text))
    IN  /\ t # <<>>
        /\ \A i \in 1..Len(t) : t[i] \in 48..57
        /\ (Len(t) = 1 \/ t[1] # 48)

\* fetch_wallet_info() when the executor call behaves as o.  The texts that
\* parse here are JSON numbers, for which json["walletname"] and the other
\* lookups are Null: as_str/as_f64/as_u64 fall back to "N/A", 0.0, 0, 0.
fetch_wallet_info(o) ==
    LET r == run_bitcoin_cli(CmdGetWalletInfo, o)
    IN  IF r.tag # "Ok"
        THEN [res |-> r, calls |-> <<Call(CmdGetWalletInfo, o)>>]
        ELSE IF ~JsonParses(r.val)
             THEN [res |-> Err(<<>>), calls |-> <<Call(CmdGetWalletInfo, o)>>]
             ELSE [res |-> Ok(<<"Wallet: ", "N/A", "Balance: ", "0.00000000", " BTC",
                                "Transactions: ", 0, "Keypool Size: ", 0>>),
                   calls |-> <<Call(CmdGetWalletInfo, o)>>]

FailedNodeInfo == <<"Failed to fetch node info">>

FailedWalletInfo == <<"Failed to fetch wallet info">>

(***************************************************************************)
(* Address validation, src/src/main.rs check_address.  The bitcoin crate's *)
(* parser is an external capability: AddressNetworks(s) is the set of      *)
(* networks for which Address::from_str(s) parses and require_network      *)
(* succeeds (empty when the string does not parse).                        *)
(***************************************************************************)
AddressNetworks(s) ==
    IF s = <<113>> THEN {"Bitcoin"}
    ELSE IF s = <<113, 113>> THEN {"Testnet", "Testnet4", "Signet"}
    ELSE {}

NetworkOrder == <<"Bitcoin", "Testnet", "Testnet4", "Signet", "Regtest">>

check_address(addr) ==
    LET s == Trim(addr)
        nets == AddressNetworks(s)
        hits == {i \in 1..Len(NetworkOrder) : NetworkOrder[i] \in nets}
    IN  IF s = <<>> THEN [class |-> "Empty", net |-> "none"]
        ELSE IF hits = {} THEN [class |-> "Invalid", net |-> "none"]
        ELSE [class |-> "ValidAny",
              net |-> NetworkOrder[CHOOSE i \in hits : \A j \in hits : i <= j]]

(***************************************************************************)
(* Address book persistence, src/src/main.rs.  The file addresses.json is  *)
(* absent, holds something serde cannot read as Vec<AddressEntry>, or      *)
(* holds the JSON of a list of entries.                                    *)
(***************************************************************************)
AbsentFile == [kind |-> "absent", entries |-> <<>>]

CorruptFile == [kind |-> "corrupt", entries |-> <<>>]

JsonFile(entries) == [kind |-> "json", entries |-> entries]

AddressEntry(t, a) == [created_at |-> t, address |-> a]

load_address_book(file) == IF file.kind = "json" THEN file.entries ELSE <<>>

\* save_address_book(path, entries) under file-system outcome sv: the write
\* succeeds; the file cannot be opened for writing (nothing changes); or the
\* write fails after std::fs::write has truncated the file.
save_address_book(file, entries, sv) ==
    IF sv = "ok" THEN [res |-> Ok(<<>>), file |-> JsonFile(entries)]
    ELSE IF sv = "open_failed" THEN [res |-> Err(<<105, 111>>), file |-> file]
    ELSE [res |-> Err(<<105, 111>>), file |-> CorruptFile]

(***************************************************************************)
(* Inputs.  A session runs in one of four environments, which differ in    *)
(* what the collaborators answer and in which keys the user presses:       *)
(*   "dashboard"  the node's answers to menu and info queries vary; in the *)
(*                overlay the user moves, deletes and closes only;         *)
(*   "edit"       the user types into the address buffer and walks a book  *)
(*                of two entries; the menu answers are fixed;              *)
(*   "book"       the user fetches, saves and copies addresses, and        *)
(*                getnewaddress, the file system and the clipboard vary;   *)
(*   "fetch"      getnewaddress also exits with a non-zero status; the     *)
(*                user fetches, saves and walks the book but presses no    *)
(*                editing key.                                             *)
(***************************************************************************)
Scenarios == {"dashboard", "edit", "book", "fetch"}

\* the io error text of a failed spawn
IoError == <<111, 115>>

\* outcomes of a menu command
MenuOutcomes(sc) ==
    IF sc = "dashboard"
    THEN {SpawnFailed(IoError),
          ExitSuccess(<<>>),
          ExitSuccess(<<49, 10, 50, 10, 51>>),        \* "1\n2\n3"
          ExitNonZero(<<101, 10, 102, 10>>)}           \* "e\nf\n"
    ELSE {ExitSuccess(<<49, 10>>)}                     \* "1\n"

\* outcomes of uptime: "61\n"
UptimeOutcomes(sc) == {ExitSuccess(<<54, 49, 10>>)}

\* outcomes of getbestblockhash
HashOutcomes(sc) ==
    IF sc = "dashboard"
    THEN {SpawnFailed(IoError), ExitSuccess(<<55, 10>>)}
    ELSE {ExitSuccess(<<55, 10>>)}

\* outcomes of getblockcount and of getwalletinfo
InfoOutcomes(sc) ==
    IF sc = "dashboard"
    THEN {SpawnFailed(IoError), ExitSuccess(<<55, 10>>), ExitNonZero(<<101>>)}
    ELSE {ExitSuccess(<<55, 10>>)}                     \* "7\n"

\* outcomes of getnewaddress
AddrOutcomes(sc) ==
    IF sc = "book"
    THEN {SpawnFailed(IoError),
          ExitSuccess(<<113, 10>>),                    \* "q\n"
          ExitSuccess(<<>>)}
    ELSE IF sc = "fetch"
         THEN {SpawnFailed(IoError),
               ExitSuccess(<<113, 10>>),               \* "q\n"
               ExitNonZero(<<101, 10>>)}               \* "e\n"
         ELSE {SpawnFailed(IoError)}

\* the overlay's command characters the user presses: 'g', 'n', 'c'
CommandChars(sc) ==
    IF sc = "book" THEN {103, 110, 99}
    ELSE IF sc = "fetch" THEN {103, 110}
    ELSE {}

\* the cursor and deletion keys the user presses
EditKeys(sc) ==
    IF sc = "fetch" THEN {}
    ELSE {"Left", "Right", "Home", "End", "Backspace", "Delete"}

\* the other characters the user types: 'q', e-acute (U+00E9), space, BEL
TypedChars(sc) == IF sc = "edit" THEN {113, 233, 32, 7} ELSE {32}

SaveOutcomes(sc) ==
    IF sc = "book" THEN {"ok", "open_failed", "write_failed"}
    ELSE IF sc = "fetch" THEN {"ok", "open_failed"}
    ELSE {"ok"}

ClipboardOutcomes(sc) == IF sc = "book" THEN {"ok", "failed"} ELSE {"ok"}

\* the file addresses.json at startup
InitialFiles(sc) ==
    IF sc = "dashboard" THEN {AbsentFile}
    ELSE IF sc = "edit"
         THEN {AbsentFile,
               JsonFile(<<AddressEntry(0, <<195, 169>>), AddressEntry(0, <<113>>)>>)}
         ELSE IF sc = "book"
              THEN {AbsentFile, CorruptFile, JsonFile(<<AddressEntry(0, <<195, 169>>)>>)}
              ELSE {AbsentFile, JsonFile(<<AddressEntry(0, <<113, 113>>)>>)}

\* commands.json at startup; <<32>> is a blank command
CommandLists(sc) ==
    IF sc = "dashboard"
    THEN {<<CmdGetBlockCount>>,
          <<CmdGetBlockCount, CmdUptime>>,
          <<CmdGetBlockCount, <<32>>>>}
    ELSE {<<CmdGetBlockCount>>}

\* heights of the right panel, in rows
TermHeights(sc) == IF sc = "dashboard" THEN {2, 5} ELSE {5}

\* Utc::now() of a new entry
NowTimestamps == {1}

\* time that passes between two loop iterations, in ms
ElapseSteps(sc) == IF sc = "dashboard" THEN {100, 1000} ELSE {1000}

(***************************************************************************)
(* Program constants.                                                      *)
(***************************************************************************)
DEBOUNCE_MS == 150

STATUS_MS == 2000

\* String::from("bc1qfpacvgpjms0eu6mszhwgjjs03yldesmmcgzad0"), shortened to
\* its first byte so that the edits of the buffer stay enumerable
DefaultAddress == <<98>>

\* the terminal after enable_raw_mode() and EnterAlternateScreen, and after
\* disable_raw_mode() and LeaveAlternateScreen
TerminalSetUp == [raw_mode |-> TRUE, alternate_screen |-> TRUE]

TerminalRestored == [raw_mode |-> FALSE, alternate_screen |-> FALSE]

\* whether terminal.draw, event::poll or event::read can fail in the session
LoopIoOutcomes(sc) == IF sc = "dashboard" THEN {"ok", "failed"} ELSE {"ok"}

(***************************************************************************)
(* Keys.                                                                   *)
(***************************************************************************)
Key(code) == [code |-> code, ch |-> 0]

Char(c) == [code |-> "Char", ch |-> c]

\* no key handler has run since startup or since time passed
NoKey(what) == [code |-> what, ch |-> 0]

(***************************************************************************)
(* State.                                                                  *)
(***************************************************************************)
VARIABLES
    scenario,         \* the environment of the session (see Inputs)
    commands,         \* commands: Vec<String>
    selected,         \* selected: usize
    output,           \* output: String
    output_lines,     \* output_lines: Vec<String>
    scroll_offset,    \* scroll_offset: usize
    node_info,        \* node_info: String
    wallet_info,      \* wallet_info: String
    show_qr_overlay,  \* show_qr_overlay: bool
    address,          \* address: String (the edit buffer)
    addr_cursor,      \* addr_cursor: usize (a byte index into address)
    overlay_status,   \* overlay_status: Option<(String, Instant)>
    addr_book,        \* addr_book: Vec<AddressEntry>
    addr_selected,    \* addr_selected: usize
    file,             \* the content of addresses.json
    height,           \* chunks[1].height of the last layout
    input_age,        \* last_input.elapsed(), saturated at DEBOUNCE_MS
    pc,               \* "running", "quit", "error" (main returned Err), "panic"
    terminal,         \* the terminal's modes: raw mode, alternate screen
    last_key,         \* the key whose handler ran last, until time passes
    calls             \* the calls of run_bitcoin_cli that handler made

vars == <<scenario, commands, selected, output, output_lines, scroll_offset,
          node_info, wallet_info, show_qr_overlay, address, addr_cursor,
          overlay_status, addr_book, addr_selected, file, height, input_age,
          pc, terminal, last_key, calls>>

envVars == <<scenario, commands>>

dashVars == <<selected, output, output_lines, scroll_offset, node_info, wallet_info>>

overlayVars == <<address, addr_cursor, overlay_status, addr_book, addr_selected, file>>

\* Some((msg, Instant::now())): the message and its age in ms, saturated at
\* STATUS_MS
Status(lit, arg) == << [msg |-> <<lit, arg>>, age |-> 0] >>

(***************************************************************************)
(* main, lines 51-94: the state in which the loop is entered.  A session   *)
(* whose command list cannot be loaded or whose first query fails or       *)
(* panics never enters the loop.                                           *)
(***************************************************************************)
Init ==
    \E sc \in Scenarios :
    \E cl \in CommandLists(sc), f \in InitialFiles(sc), h \in TermHeights(sc),
       o \in MenuOutcomes(sc), o1 \in UptimeOutcomes(sc), o2 \in InfoOutcomes(sc),
       o3 \in HashOutcomes(sc), o4 \in InfoOutcomes(sc) :
        LET first == run_bitcoin_cli(cl[1], o)
            node == fetch_node_info(o1, o2, o3)
            wallet == fetch_wallet_info(o4)
            book == load_address_book(f)
        IN  /\ first.tag = "Ok"
            /\ scenario = sc
            /\ commands = cl
            /\ selected = 0
            /\ output = first.val
            /\ output_lines = Lines(first.val)
            /\ scroll_offset = 0
            /\ node_info = IF node.res.tag = "Ok" THEN node.res.val ELSE FailedNodeInfo
            /\ wallet_info =
                   IF wallet.res.tag = "Ok" THEN wallet.res.val ELSE FailedWalletInfo
            /\ show_qr_overlay = FALSE
            /\ address = DefaultAddress
            /\ addr_cursor = Len(DefaultAddress)
            /\ overlay_status = <<>>
            /\ addr_book = book
            /\ addr_selected = IF book = <<>> THEN 0 ELSE Len(book) - 1
            /\ file = f
            /\ height = h
            /\ input_age = 0
            /\ pc = "running"
            /\ terminal = TerminalSetUp
            /\ last_key = NoKey("startup")
            /\ calls = <<>>

(***************************************************************************)
(* The loop body, lines 313-512.                                           *)
(***************************************************************************)
\* Accepting without the debounce test
AcceptingAlways == pc = "running"

\* a key event was read and last_input.elapsed() >= 150 ms
Accepting == pc = "running" /\ input_age >= DEBOUNCE_MS

\* the handler of key k ran to its end: last_input = Instant::now()
Handled(k, log) ==
    /\ pc' = "running"
    /\ terminal' = terminal
    /\ input_age' = 0
    /\ last_key' = k
    /\ calls' = log

\* the handler of key k left the loop: break, an Err propagated by `?`, or a
\* panic.  Only break reaches the teardown after the loop (disable_raw_mode,
\* LeaveAlternateScreen, show_cursor); `?` and a panic leave main at once.
Exited(k, how, log) ==
    /\ pc' = how
    /\ terminal' = IF how = "quit" THEN TerminalRestored ELSE terminal
    /\ last_key' = k
    /\ calls' = log
    /\ UNCHANGED input_age

\* v[i] on a Vec panics when i is out of range
IndexPanics(v, i) == i >= Len(v)

(***************************************************************************)
(* Keys while the overlay is open, lines 317-449.                          *)
(***************************************************************************)
\* OverlayClose that writes the edit buffer back to the address book
OverlayCloseWritesBack ==
    \E k \in {Key("Esc"), Char(120)} :
        /\ Accepting /\ show_qr_overlay
        /\ show_qr_overlay' = FALSE
        /\ addr_book' = Append(addr_book, AddressEntry(0, address))
        /\ Handled(k, <<>>)
        /\ UNCHANGED <<envVars, height, dashVars, address, addr_cursor,
                       overlay_status, addr_selected, file>>

\* KeyCode::Esc | KeyCode::Char('x')
OverlayClose ==
    \E k \in {Key("Esc"), Char(120)} :
        /\ Accepting /\ show_qr_overlay
        /\ show_qr_overlay' = FALSE
        /\ Handled(k, <<>>)
        /\ UNCHANGED <<envVars, height, dashVars, overlayVars>>

\* KeyCode::Left
OverlayLeft ==
    /\ Accepting /\ show_qr_overlay
    /\ "Left" \in EditKeys(scenario)
    /\ addr_cursor' = IF addr_cursor > 0 THEN addr_cursor - 1 ELSE addr_cursor
    /\ Handled(Key("Left"), <<>>)
    /\ UNCHANGED <<envVars, height, dashVars, show_qr_overlay, address,
                   overlay_status, addr_book, addr_selected, file>>

\* OverlayRight with the guard addr_cursor <= address.len()
OverlayRightOffByOne ==
    /\ Accepting /\ show_qr_overlay
    /\ addr_cursor' = IF addr_cursor <= Len(address) THEN addr_cursor + 1 ELSE addr_cursor
    /\ Handled(Key("Right"), <<>>)
    /\ UNCHANGED <<envVars, height, dashVars, show_qr_overlay, address,
                   overlay_status, addr_book, addr_selected, file>>

\* KeyCode::Right
OverlayRight ==
    /\ Accepting /\ show_qr_overlay
    /\ "Right" \in EditKeys(scenario)
    /\ addr_cursor' = IF addr_cursor < Len(address) THEN addr_cursor + 1 ELSE addr_cursor
    /\ Handled(Key("Right"), <<>>)
    /\ UNCHANGED <<envVars, height, dashVars, show_qr_overlay, address,
                   overlay_status, addr_book, addr_selected, file>>

\* KeyCode::Home
OverlayHome ==
    /\ Accepting /\ show_qr_overlay
    /\ "Home" \in EditKeys(scenario)
    /\ addr_cursor' = 0
    /\ Handled(Key("Home"), <<>>)
    /\ UNCHANGED <<envVars, height, dashVars, show_qr_overlay, address,
                   overlay_status, addr_book, addr_selected, file>>

\* KeyCode::End
OverlayEnd ==
    /\ Accepting /\ show_qr_overlay
    /\ "End" \in EditKeys(scenario)
    /\ addr_cursor' = Len(address)
    /\ Handled(Key("End"), <<>>)
    /\ UNCHANGED <<envVars, height, dashVars, show_qr_overlay, address,
                   overlay_status, addr_book, addr_selected, file>>

\* KeyCode::Backspace
OverlayBackspace ==
    /\ Accepting /\ show_qr_overlay
    /\ "Backspace" \in EditKeys(scenario)
    /\ IF addr_cursor > 0 /\ address # <<>>
       THEN IF RemovePanics(address, addr_cursor - 1)
            THEN /\ Exited(Key("Backspace"), "panic", <<>>)
                 /\ UNCHANGED <<address, addr_cursor>>
            ELSE /\ address' = StringRemove(address, addr_cursor - 1)
                 /\ addr_cursor' = addr_cursor - 1
                 /\ Handled(Key("Backspace"), <<>>)
       ELSE /\ Handled(Key("Backspace"), <<>>)
            /\ UNCHANGED <<address, addr_cursor>>
    /\ UNCHANGED <<envVars, height, dashVars, show_qr_overlay,
                   overlay_status, addr_book, addr_selected, file>>

\* KeyCode::Delete
OverlayDelete ==
    /\ Accepting /\ show_qr_overlay
    /\ "Delete" \in EditKeys(scenario)
    /\ IF addr_cursor < Len(address) /\ address # <<>>
       THEN IF RemovePanics(address, addr_cursor)
            THEN /\ Exited(Key("Delete"), "panic", <<>>)
                 /\ UNCHANGED address
            ELSE /\ address' = StringRemove(address, addr_cursor)
                 /\ Handled(Key("Delete"), <<>>)
       ELSE /\ Handled(Key("Delete"), <<>>)
            /\ UNCHANGED address
    /\ UNCHANGED <<envVars, height, dashVars, show_qr_overlay, addr_cursor,
                   overlay_status, addr_book, addr_selected, file>>

\* OverlayUp that moves the selection and keeps the edited buffer
OverlayUpKeepsBuffer ==
    /\ Accepting /\ show_qr_overlay
    /\ addr_selected' = IF addr_book # <<>> /\ addr_selected > 0
                        THEN addr_selected - 1
                        ELSE addr_selected
    /\ Handled(Key("Up"), <<>>)
    /\ UNCHANGED <<envVars, height, dashVars, show_qr_overlay, address, addr_cursor,
                   overlay_status, addr_book, file>>

\* KeyCode::Up
OverlayUp ==
    /\ Accepting /\ show_qr_overlay
    /\ IF addr_book # <<>> /\ addr_selected > 0
       THEN /\ addr_selected' = addr_selected - 1
            /\ IF IndexPanics(addr_book, addr_selected - 1)
               THEN /\ Exited(Key("Up"), "panic", <<>>)
                    /\ UNCHANGED <<address, addr_cursor>>
               ELSE /\ address' = addr_book[addr_selected].address
                    /\ addr_cursor' = Len(address')
                    /\ Handled(Key("Up"), <<>>)
       ELSE /\ Handled(Key("Up"), <<>>)
            /\ UNCHANGED <<address, addr_cursor, addr_selected>>
    /\ UNCHANGED <<envVars, height, dashVars, show_qr_overlay,
                   overlay_status, addr_book, file>>

\* OverlayDown with the guard addr_selected < addr_book.len()
OverlayDownPastEnd ==
    /\ Accepting /\ show_qr_overlay
    /\ IF addr_book # <<>> /\ addr_selected < Len(addr_book)
       THEN /\ addr_selected' = addr_selected + 1
            /\ IF IndexPanics(addr_book, addr_selected + 1)
               THEN /\ Exited(Key("Down"), "panic", <<>>)
                    /\ UNCHANGED <<address, addr_cursor>>
               ELSE /\ address' = addr_book[addr_selected + 2].address
                    /\ addr_cursor' = Len(address')
                    /\ Handled(Key("Down"), <<>>)
       ELSE /\ Handled(Key("Down"), <<>>)
            /\ UNCHANGED <<address, addr_cursor, addr_selected>>
    /\ UNCHANGED <<envVars, height, dashVars, show_qr_overlay,
                   overlay_status, addr_book, file>>

\* KeyCode::Down
OverlayDown ==
    /\ Accepting /\ show_qr_overlay
    /\ IF addr_book # <<>> /\ addr_selected + 1 < Len(addr_book)
       THEN /\ addr_selected' = addr_selected + 1
            /\ address' = addr_book[addr_selected + 2].address
            /\ addr_cursor' = Len(address')
            /\ Handled(Key("Down"), <<>>)
       ELSE /\ Handled(Key("Down"), <<>>)
            /\ UNCHANGED <<address, addr_cursor, addr_selected>>
    /\ UNCHANGED <<envVars, height, dashVars, show_qr_overlay,
                   overlay_status, addr_book, file>>

\* KeyCode::Char('g'): get a new address, no save
OverlayFetch ==
    /\ Accepting /\ show_qr_overlay
    /\ 103 \in CommandChars(scenario)
    /\ \E o \in AddrOutcomes(scenario) :
        LET r == run_bitcoin_cli(CmdGetNewAddress, o)
        IN  /\ IF r.tag = "Ok"
               THEN /\ address' = Trim(r.val)
                    /\ addr_cursor' = Len(address')
                    /\ overlay_status' = Status("New address fetched", <<>>)
               ELSE /\ overlay_status' = Status("getnewaddress error: ", r.val)
                    /\ UNCHANGED <<address, addr_cursor>>
            /\ Handled(Char(103), <<Call(CmdGetNewAddress, o)>>)
            /\ UNCHANGED <<envVars, height, dashVars, show_qr_overlay,
                           addr_book, addr_selected, file>>

\* OverlayNewSave that puts the new entry at the front of the book
OverlayNewSavePrepends ==
    /\ Accepting /\ show_qr_overlay
    /\ 110 \in CommandChars(scenario)
    /\ \E o \in AddrOutcomes(scenario), sv \in SaveOutcomes(scenario),
          now \in NowTimestamps :
        LET r == run_bitcoin_cli(CmdGetNewAddress, o)
            new_addr == Trim(r.val)
            valid == r.tag = "Ok" /\ check_address(new_addr).class = "ValidAny"
            pushed == <<AddressEntry(now, new_addr)>> \o addr_book
            saved == save_address_book(file, pushed, sv)
        IN  /\ valid => Len(addr_book) < MaxBook
            /\ IF valid
               THEN /\ addr_book' = pushed
                    /\ file' = saved.file
                    /\ overlay_status' =
                           IF saved.res.tag = "Ok"
                           THEN Status("New address saved", <<>>)
                           ELSE Status("Save failed: ", saved.res.val)
                    /\ addr_selected' = Len(pushed) - 1
                    /\ address' = new_addr
                    /\ addr_cursor' = Len(new_addr)
               ELSE /\ overlay_status' =
                           IF r.tag = "Ok"
                           THEN Status("RPC returned invalid address", <<>>)
                           ELSE Status("getnewaddress error: ", r.val)
                    /\ UNCHANGED <<addr_book, file, addr_selected, address, addr_cursor>>
            /\ Handled(Char(110), <<Call(CmdGetNewAddress, o)>>)
            /\ UNCHANGED <<envVars, height, dashVars, show_qr_overlay>>

\* OverlayNewSave that shows an invalid result in the buffer
OverlayNewSaveMirrorsInvalid ==
    /\ Accepting /\ show_qr_overlay
    /\ 110 \in CommandChars(scenario)
    /\ \E o \in AddrOutcomes(scenario), sv \in SaveOutcomes(scenario),
          now \in NowTimestamps :
        LET r == run_bitcoin_cli(CmdGetNewAddress, o)
            new_addr == Trim(r.val)
            valid == r.tag = "Ok" /\ check_address(new_addr).class = "ValidAny"
            pushed == Append(addr_book, AddressEntry(now, new_addr))
            saved == save_address_book(file, pushed, sv)
        IN  /\ valid => Len(addr_book) < MaxBook
            /\ IF valid
               THEN /\ addr_book' = pushed
                    /\ file' = saved.file
                    /\ overlay_status' =
                           IF saved.res.tag = "Ok"
                           THEN Status("New address saved", <<>>)
                           ELSE Status("Save failed: ", saved.res.val)
                    /\ addr_selected' = Len(pushed) - 1
                    /\ address' = new_addr
                    /\ addr_cursor' = Len(new_addr)
               ELSE /\ overlay_status' =
                           IF r.tag = "Ok"
                           THEN Status("RPC returned invalid address", <<>>)
                           ELSE Status("getnewaddress error: ", r.val)
                    /\ address' = IF r.tag = "Ok" THEN new_addr ELSE address
                    /\ addr_cursor' = Len(address')
                    /\ UNCHANGED <<addr_book, file, addr_selected>>
            /\ Handled(Char(110), <<Call(CmdGetNewAddress, o)>>)
            /\ UNCHANGED <<envVars, height, dashVars, show_qr_overlay>>

\* OverlayNewSave that drops the new entry again when the save fails
OverlayNewSaveRollsBack ==
    /\ Accepting /\ show_qr_overlay
    /\ 110 \in CommandChars(scenario)
    /\ \E o \in AddrOutcomes(scenario), sv \in SaveOutcomes(scenario),
          now \in NowTimestamps :
        LET r == run_bitcoin_cli(CmdGetNewAddress, o)
            new_addr == Trim(r.val)
            valid == r.tag = "Ok" /\ check_address(new_addr).class = "ValidAny"
            pushed == Append(addr_book, AddressEntry(now, new_addr))
            saved == save_address_book(file, pushed, sv)
        IN  /\ valid => Len(addr_book) < MaxBook
            /\ IF valid
               THEN /\ addr_book' = IF saved.res.tag = "Ok" THEN pushed ELSE addr_book
                    /\ file' = saved.file
                    /\ overlay_status' =
                           IF saved.res.tag = "Ok"
                           THEN Status("New address saved", <<>>)
                           ELSE Status("Save failed: ", saved.res.val)
                    /\ addr_selected' = Max(0, Len(addr_book') - 1)
                    /\ address' = new_addr
                    /\ addr_cursor' = Len(new_addr)
               ELSE /\ overlay_status' =
                           IF r.tag = "Ok"
                           THEN Status("RPC returned invalid address", <<>>)
                           ELSE Status("getnewaddress error: ", r.val)
                    /\ UNCHANGED <<addr_book, file, addr_selected, address, addr_cursor>>
            /\ Handled(Char(110), <<Call(CmdGetNewAddress, o)>>)
            /\ UNCHANGED <<envVars, height, dashVars, show_qr_overlay>>

\* OverlayNewSave that reads the book back from the file after the save
OverlayNewSaveReloads ==
    /\ Accepting /\ show_qr_overlay
    /\ 110 \in CommandChars(scenario)
    /\ \E o \in AddrOutcomes(scenario), sv \in SaveOutcomes(scenario),
          now \in NowTimestamps :
        LET r == run_bitcoin_cli(CmdGetNewAddress, o)
            new_addr == Trim(r.val)
            valid == r.tag = "Ok" /\ check_address(new_addr).class = "ValidAny"
            pushed == Append(addr_book, AddressEntry(now, new_addr))
            saved == save_address_book(file, pushed, sv)
        IN  /\ valid => Len(addr_book) < MaxBook
            /\ IF valid
               THEN /\ addr_book' = load_address_book(saved.file)
                    /\ file' = saved.file
                    /\ overlay_status' =
                           IF saved.res.tag = "Ok"
                           THEN Status("New address saved", <<>>)
                           ELSE Status("Save failed: ", saved.res.val)
                    /\ addr_selected' = Max(0, Len(addr_book') - 1)
                    /\ address' = new_addr
                    /\ addr_cursor' = Len(new_addr)
               ELSE /\ overlay_status' =
                           IF r.tag = "Ok"
                           THEN Status("RPC returned invalid address", <<>>)
                           ELSE Status("getnewaddress error: ", r.val)
                    /\ UNCHANGED <<addr_book, file, addr_selected, address, addr_cursor>>
            /\ Handled(Char(110), <<Call(CmdGetNewAddress, o)>>)
            /\ UNCHANGED <<envVars, height, dashVars, show_qr_overlay>>

\* KeyCode::Char('n'): get a new address and save it to the address book
OverlayNewSave ==
    /\ Accepting /\ show_qr_overlay
    /\ 110 \in CommandChars(scenario)
    /\ \E o \in AddrOutcomes(scenario), sv \in SaveOutcomes(scenario),
          now \in NowTimestamps :
        LET r == run_bitcoin_cli(CmdGetNewAddress, o)
            new_addr == Trim(r.val)
            valid == r.tag = "Ok" /\ check_address(new_addr).class = "ValidAny"
            pushed == Append(addr_book, AddressEntry(now, new_addr))
            saved == save_address_book(file, pushed, sv)
        IN  /\ valid => Len(addr_book) < MaxBook
            /\ IF valid
               THEN /\ addr_book' = pushed
                    /\ file' = saved.file
                    /\ overlay_status' =
                           IF saved.res.tag = "Ok"
                           THEN Status("New address saved", <<>>)
                           ELSE Status("Save failed: ", saved.res.val)
                    /\ addr_selected' = Len(pushed) - 1
                    /\ address' = new_addr
                    /\ addr_cursor' = Len(new_addr)
               ELSE /\ overlay_status' =
                           IF r.tag = "Ok"
                           THEN Status("RPC returned invalid address", <<>>)
                           ELSE Status("getnewaddress error: ", r.val)
                    /\ UNCHANGED <<addr_book, file, addr_selected, address, addr_cursor>>
            /\ Handled(Char(110), <<Call(CmdGetNewAddress, o)>>)
            /\ UNCHANGED <<envVars, height, dashVars, show_qr_overlay>>

\* KeyCode::Char('c'): copy_to_clipboard(&address)
OverlayCopy ==
    /\ Accepting /\ show_qr_overlay
    /\ 99 \in CommandChars(scenario)
    /\ \E cb \in ClipboardOutcomes(scenario) :
        /\ overlay_status' =
               IF cb = "ok"
               THEN Status("Copied to clipboard", <<>>)
               ELSE Status("Copy failed: ", <<99, 98>>)
        /\ Handled(Char(99), <<>>)
        /\ UNCHANGED <<envVars, height, dashVars, show_qr_overlay, address,
                       addr_cursor, addr_book, addr_selected, file>>

\* KeyCode::Char(c), any character not bound above
OverlayType ==
    /\ Accepting /\ show_qr_overlay
    /\ \E c \in TypedChars(scenario) :
        LET idx == Min(addr_cursor, Len(address))
        IN  /\ c \notin {120, 103, 110, 99}
            /\ IF ~IsControl(c) /\ c # 32
               THEN /\ Len(address) + LenUtf8(c) <= MaxAddrLen
                    /\ IF InsertPanics(address, idx)
                       THEN /\ Exited(Char(c), "panic", <<>>)
                            /\ UNCHANGED <<address, addr_cursor>>
                       ELSE /\ address' = StringInsert(address, idx, c)
                            /\ addr_cursor' = Min(addr_cursor + 1, Len(address'))
                            /\ Handled(Char(c), <<>>)
               ELSE /\ Handled(Char(c), <<>>)
                    /\ UNCHANGED <<address, addr_cursor>>
            /\ UNCHANGED <<envVars, height, dashVars, show_qr_overlay,
                           overlay_status, addr_book, addr_selected, file>>

\* _ => {} while the overlay is open
OverlayOther ==
    \E k \in {Key("Enter"), Key("Tab")} :
        /\ Accepting /\ show_qr_overlay
        /\ Handled(k, <<>>)
        /\ UNCHANGED <<envVars, height, dashVars, show_qr_overlay, overlayVars>>

(***************************************************************************)
(* Keys while the overlay is closed, lines 451-509.                        *)
(***************************************************************************)
\* KeyCode::Char('q') => break, then the teardown of lines 515-519
Quit ==
    /\ Accepting /\ ~show_qr_overlay
    /\ Exited(Char(113), "quit", <<>>)
    /\ UNCHANGED <<envVars, height, dashVars, show_qr_overlay, overlayVars>>

\* OpenOverlay without addr_cursor = address.len()
OpenOverlayKeepsCursor ==
    /\ Accepting /\ ~show_qr_overlay
    /\ show_qr_overlay' = TRUE
    /\ address' = IF addr_book # <<>>
                  THEN addr_book[addr_selected + 1].address
                  ELSE address
    /\ Handled(Char(119), <<>>)
    /\ UNCHANGED <<envVars, height, dashVars, addr_cursor, overlay_status,
                   addr_book, addr_selected, file>>

\* KeyCode::Char('w')
OpenOverlay ==
    /\ Accepting /\ ~show_qr_overlay
    /\ show_qr_overlay' = TRUE
    /\ IF addr_book # <<>> /\ IndexPanics(addr_book, addr_selected)
       THEN /\ Exited(Char(119), "panic", <<>>)
            /\ UNCHANGED <<address, addr_cursor>>
       ELSE /\ address' = IF addr_book # <<>>
                          THEN addr_book[addr_selected + 1].address
                          ELSE address
            /\ addr_cursor' = Len(address')
            /\ Handled(Char(119), <<>>)
    /\ UNCHANGED <<envVars, height, dashVars, overlay_status, addr_book,
                   addr_selected, file>>

\* output = run_bitcoin_cli(&commands[selected])?;
\* output_lines = output.lines().map(|l| l.to_string()).collect();
\* with selected already updated to sel.  ok is what the handler does next.
RunSelected(k, sel, o, ok, log) ==
    LET r == run_bitcoin_cli(commands[sel + 1], o)
    IN  IF IndexPanics(commands, sel) \/ r.tag = "Panic"
        THEN /\ Exited(k, "panic", <<>>)
             /\ UNCHANGED <<output, output_lines, scroll_offset, node_info, wallet_info>>
        ELSE IF r.tag = "Err"
             THEN /\ Exited(k, "error", <<Call(commands[sel + 1], o)>>)
                  /\ UNCHANGED <<output, output_lines, scroll_offset, node_info,
                                 wallet_info>>
             ELSE /\ output' = r.val
                  /\ output_lines' = Lines(r.val)
                  /\ ok
                  /\ Handled(k, <<Call(commands[sel + 1], o)>> \o log)

\* KeyCode::Char('r'): refresh output, node info and wallet info
Refresh ==
    /\ Accepting /\ ~show_qr_overlay
    /\ \E o \in MenuOutcomes(scenario), o1 \in UptimeOutcomes(scenario),
          o2 \in InfoOutcomes(scenario), o3 \in HashOutcomes(scenario),
          o4 \in InfoOutcomes(scenario) :
        LET node == fetch_node_info(o1, o2, o3)
            wallet == fetch_wallet_info(o4)
        IN  /\ RunSelected(Char(114), selected, o,
                   /\ node_info' = IF node.res.tag = "Ok" THEN node.res.val ELSE node_info
                   /\ wallet_info' =
                          IF wallet.res.tag = "Ok" THEN wallet.res.val ELSE wallet_info
                   /\ scroll_offset' = 0,
                   node.calls \o wallet.calls)
            /\ UNCHANGED <<envVars, height, selected, show_qr_overlay, overlayVars>>

\* SelectNext with a wraparound from the last command to the first
SelectNextWraps ==
    /\ Accepting /\ ~show_qr_overlay
    /\ \E o \in MenuOutcomes(scenario) :
        LET next == IF selected < Len(commands) - 1 THEN selected + 1 ELSE 0
        IN  /\ selected' = next
            /\ RunSelected(Key("Down"), next, o,
                   /\ scroll_offset' = 0
                   /\ UNCHANGED <<node_info, wallet_info>>,
                   <<>>)
    /\ UNCHANGED <<envVars, height, show_qr_overlay, overlayVars>>

\* KeyCode::Down
SelectNext ==
    /\ Accepting /\ ~show_qr_overlay
    /\ \E o \in MenuOutcomes(scenario) :
        /\ IF commands = <<>>
           THEN /\ Exited(Key("Down"), "panic", <<>>)      \* commands.len() - 1
                /\ UNCHANGED dashVars
           ELSE IF selected < Len(commands) - 1
                THEN /\ selected' = selected + 1
                     /\ RunSelected(Key("Down"), selected + 1, o,
                            /\ scroll_offset' = 0
                            /\ UNCHANGED <<node_info, wallet_info>>,
                            <<>>)
                ELSE /\ Handled(Key("Down"), <<>>)
                     /\ UNCHANGED dashVars
        /\ UNCHANGED <<envVars, height, show_qr_overlay, overlayVars>>

\* KeyCode::Up
SelectPrevious ==
    /\ Accepting /\ ~show_qr_overlay
    /\ \E o \in MenuOutcomes(scenario) :
        /\ IF selected > 0
           THEN /\ selected' = selected - 1
                /\ RunSelected(Key("Up"), selected - 1, o,
                       /\ scroll_offset' = 0
                       /\ UNCHANGED <<node_info, wallet_info>>,
                       <<>>)
           ELSE /\ Handled(Key("Up"), <<>>)
                /\ UNCHANGED dashVars
        /\ UNCHANGED <<envVars, height, show_qr_overlay, overlayVars>>

\* ScrollDown with the guard scroll_offset < output_lines.len()
ScrollDownOffByOne ==
    \E k \in {Key("PageDown"), Char(106)} :
        /\ Accepting /\ ~show_qr_overlay
        /\ scroll_offset' = IF scroll_offset < Len(output_lines)
                            THEN scroll_offset + 1
                            ELSE scroll_offset
        /\ Handled(k, <<>>)
        /\ UNCHANGED <<envVars, height, selected, output, output_lines, node_info,
                       wallet_info, show_qr_overlay, overlayVars>>

\* KeyCode::PageDown | KeyCode::Char('j')
ScrollDown ==
    \E k \in {Key("PageDown"), Char(106)} :
        /\ Accepting /\ ~show_qr_overlay
        /\ scroll_offset' = IF scroll_offset + 1 < Len(output_lines)
                            THEN scroll_offset + 1
                            ELSE scroll_offset
        /\ Handled(k, <<>>)
        /\ UNCHANGED <<envVars, height, selected, output, output_lines, node_info,
                       wallet_info, show_qr_overlay, overlayVars>>

\* KeyCode::PageUp | KeyCode::Char('k')
ScrollUp ==
    \E k \in {Key("PageUp"), Char(107)} :
        /\ Accepting /\ ~show_qr_overlay
        /\ scroll_offset' = IF scroll_offset > 0 THEN scroll_offset - 1 ELSE scroll_offset
        /\ Handled(k, <<>>)
        /\ UNCHANGED <<envVars, height, selected, output, output_lines, node_info,
                       wallet_info, show_qr_overlay, overlayVars>>

\* EnterKey without scroll_offset = 0
EnterKeyKeepsScroll ==
    /\ Accepting /\ ~show_qr_overlay
    /\ \E o \in MenuOutcomes(scenario) :
        /\ RunSelected(Key("Enter"), selected, o,
               UNCHANGED <<scroll_offset, node_info, wallet_info>>,
               <<>>)
    /\ UNCHANGED <<envVars, height, selected, show_qr_overlay, overlayVars>>

\* KeyCode::Enter
EnterKey ==
    /\ Accepting /\ ~show_qr_overlay
    /\ \E o \in MenuOutcomes(scenario) :
        /\ RunSelected(Key("Enter"), selected, o,
               /\ scroll_offset' = 0
               /\ UNCHANGED <<node_info, wallet_info>>,
               <<>>)
        /\ UNCHANGED <<envVars, height, selected, show_qr_overlay, overlayVars>>

\* _ => {} while the overlay is closed
DashOther ==
    \E k \in {Key("Backspace"), Char(110)} :
        /\ Accepting /\ ~show_qr_overlay
        /\ Handled(k, <<>>)
        /\ UNCHANGED <<envVars, height, dashVars, show_qr_overlay, overlayVars>>

(***************************************************************************)
(* The rest of the loop.                                                   *)
(***************************************************************************)
\* a key event read while last_input.elapsed() < 150 ms: nothing is done
KeyDropped ==
    /\ pc = "running" /\ input_age < DEBOUNCE_MS
    /\ UNCHANGED vars

\* time passes (event::poll timing out included): the two Instants age
Elapse ==
    \E d \in ElapseSteps(scenario) :
        /\ pc = "running"
        /\ input_age' = Min(input_age + d, DEBOUNCE_MS)
        /\ overlay_status' =
               [i \in DOMAIN overlay_status |->
                   [overlay_status[i] EXCEPT !.age = Min(@ + d, STATUS_MS)]]
        /\ last_key' = NoKey("timeout")
        /\ calls' = <<>>
        /\ UNCHANGED <<envVars, height, dashVars, show_qr_overlay, address,
                       addr_cursor, addr_book, addr_selected, file, pc, terminal>>

\* an event that is no key (the terminal was resized): the next draw lays
\* the panels out for the new size
Resize ==
    \E h \in TermHeights(scenario) :
        /\ pc = "running"
        /\ h # height
        /\ height' = h
        /\ UNCHANGED <<envVars, dashVars, show_qr_overlay, overlayVars, input_age, pc,
                       terminal, last_key, calls>>

\* terminal.draw(..)?, event::poll(..)? or event::read()? returns Err: main
\* returns it at once
LoopIoError ==
    /\ pc = "running"
    /\ "failed" \in LoopIoOutcomes(scenario)
    /\ pc' = "error"
    /\ last_key' = NoKey("io_error")
    /\ calls' = <<>>
    /\ UNCHANGED <<envVars, height, dashVars, show_qr_overlay, overlayVars, input_age,
                   terminal>>

(***************************************************************************)
(* Rendering, lines 156-164 and 213-220: functions of the state.           *)
(***************************************************************************)
\* Paragraph::new(wallet_info.as_str()): the text of the wallet panel
wallet_info_paragraph == wallet_info

\* status_line that also shows a message whose 2 seconds just ran out
status_lineKeepsExpired ==
    IF /\ show_qr_overlay
       /\ overlay_status # <<>>
       /\ overlay_status[1].age <= STATUS_MS
    THEN <<overlay_status[1].msg>>
    ELSE <<>>

\* the lines the overlay's help paragraph gets from overlay_status:
\* if let Some((msg, ts)) = &overlay_status { if ts.elapsed() < 2 s { push } }
status_line ==
    IF /\ show_qr_overlay
       /\ overlay_status # <<>>
       /\ overlay_status[1].age < STATUS_MS
    THEN <<overlay_status[1].msg>>
    ELSE <<>>

\* let visible_height = if height > 2 { height - 2 } else { 0 };
VisibleHeight(h) == IF h > 2 THEN h - 2 ELSE 0

\* the bounds lo..hi of the slice &output_lines[lo..hi] the draw takes; the
\* empty slice &[] is 0..0.  Indexing panics unless lo <= hi <= len.
VisibleRange(lines, offset, vh) ==
    IF Len(lines) > vh + offset
    THEN [lo |-> offset, hi |-> offset + vh]
    ELSE IF offset < Len(lines)
         THEN [lo |-> offset, hi |-> Len(lines)]
         ELSE [lo |-> 0, hi |-> 0]

\* VisibleLines without the window: always the tail from the offset
VisibleLinesWholeTail(lines, offset, vh) ==
    IF offset < Len(lines)
    THEN SubSeq(lines, offset + 1, Len(lines))
    ELSE <<>>

\* let visible_lines = if .. { &output_lines[a..b] } else if .. { &output_lines[a..] }
\*                     else { &[] };
VisibleLines(lines, offset, vh) ==
    IF Len(lines) > vh + offset
    THEN SubSeq(lines, offset + 1, offset + vh)
    ELSE IF offset < Len(lines)
         THEN SubSeq(lines, offset + 1, Len(lines))
         ELSE <<>>

visible_height == VisibleHeight(height)

visible_lines == VisibleLines(output_lines, scroll_offset, visible_height)

Next ==
    \/ OverlayClose \/ OverlayLeft \/ OverlayRight \/ OverlayHome \/ OverlayEnd
    \/ OverlayBackspace \/ OverlayDelete \/ OverlayUp \/ OverlayDown
    \/ OverlayFetch \/ OverlayNewSave \/ OverlayCopy \/ OverlayType \/ OverlayOther
    \/ Quit \/ OpenOverlay \/ Refresh \/ SelectNext \/ SelectPrevious
    \/ ScrollDown \/ ScrollUp \/ EnterKey \/ DashOther
    \/ KeyDropped \/ Elapse \/ Resize \/ LoopIoError

Spec == Init /\ [][Next]_vars

(***************************************************************************)
(* Properties.                                                             *)
(***************************************************************************)
\* a handler that runs the selected command
RunsSelected == Refresh \/ SelectNext \/ SelectPrevious \/ EnterKey

\* the last handler's first executor call failed: the process could not be
\* spawned, or it returned a non-zero status
MenuCallFailed == calls # <<>> /\ calls[1].status # "success"

\* C1: when the executor fails for the selected command (the call fails or
\* the command returns a non-zero status), the handler replaces output_lines
\* with one line carrying the failure text and the loop keeps running.
C1_FailedQueryIsOneLineAndLoopRuns ==
    [][(RunsSelected /\ MenuCallFailed')
          => /\ pc' = "running"
             /\ Len(output_lines') = 1
             /\ output_lines' = <<output'>>]_vars

\* C2: selected stays within the command list, and Down at the last command
\* and Up at the first are no-ops: selected, output_lines and scroll_offset
\* keep their values and no query is run.
C2_SelectionInBoundsNoWrap ==
    /\ [](selected >= 0 /\ selected < Len(commands))
    /\ [][((SelectNext /\ selected = Len(commands) - 1)
              \/ (SelectPrevious /\ selected = 0))
            => (UNCHANGED <<selected, output_lines, scroll_offset>> /\ calls' = <<>>)]_vars

\* Down was pressed on the last of two commands with the output scrolled:
\* nothing moved and no query ran
C2_Witness ==
    /\ last_key = Key("Down")
    /\ pc = "running"
    /\ Len(commands) = 2
    /\ selected = 1
    /\ scroll_offset > 0
    /\ calls = <<>>

\* C3: an Up/Down that changes selected moves it by exactly one, resets
\* scroll_offset to 0 and replaces output_lines with the lines of the result
\* of the newly selected command.
C3_SelectionChangeShowsNewResult ==
    [][((SelectNext \/ SelectPrevious) /\ selected' # selected)
          => /\ (selected' = selected + 1 \/ selected' = selected - 1)
             /\ scroll_offset' = 0
             /\ Len(calls') = 1
             /\ calls'[1].cmd = commands[selected' + 1]
             /\ LET r == run_bitcoin_cli(calls'[1].cmd, calls'[1])
                IN  r.tag = "Ok" /\ output_lines' = Lines(r.val)]_vars

C5_OneLineStaysVisible ==
    /\ output_lines # <<>> => scroll_offset < Len(output_lines)
    /\ output_lines = <<>> => scroll_offset = 0

\* Enter replaced the output by an empty result: the offset is back at 0
C5_Witness ==
    /\ last_key = Key("Enter")
    /\ pc = "running"
    /\ calls # <<>>
    /\ output_lines = <<>>
    /\ scroll_offset = 0

\* a key handler of the open overlay ran
OverlayKey ==
    \/ OverlayClose \/ OverlayLeft \/ OverlayRight \/ OverlayHome \/ OverlayEnd
    \/ OverlayBackspace \/ OverlayDelete \/ OverlayUp \/ OverlayDown
    \/ OverlayFetch \/ OverlayNewSave \/ OverlayCopy \/ OverlayType \/ OverlayOther

\* a key handler of the dashboard ran
DashKey ==
    \/ Quit \/ OpenOverlay \/ Refresh \/ SelectNext \/ SelectPrevious
    \/ ScrollDown \/ ScrollUp \/ EnterKey \/ DashOther

\* no call of the last handler ran a command other than getnewaddress
NoMenuQuery == \A i \in 1..Len(calls) : calls[i].cmd = CmdGetNewAddress

\* C6: while the overlay is open no accepted key changes the dashboard state,
\* runs a menu query or ends the session; while it is closed no accepted key
\* other than the open key changes the overlay state or the address book.
C6_FocusExclusive ==
    [][/\ (show_qr_overlay /\ (OverlayKey \/ DashKey))
            => (UNCHANGED dashVars /\ NoMenuQuery' /\ pc' = "running")
       /\ (~show_qr_overlay /\ (OverlayKey \/ DashKey) /\ last_key' # Char(119))
            => UNCHANGED overlayVars]_vars

\* C7: on Closed -> Open the buffer becomes the address of the selected entry
\* when the book is non-empty and is left alone when it is empty; the cursor
\* is at the end of the buffer; the book and its selection are unchanged.
C7_OpenSeedsBuffer ==
    [][(~show_qr_overlay /\ show_qr_overlay')
          => /\ pc' = "running"
             /\ addr_book # <<>> =>
                    /\ addr_selected < Len(addr_book)
                    /\ address' = addr_book[addr_selected + 1].address
             /\ addr_book = <<>> => address' = address
             /\ addr_cursor' = Len(address')
             /\ UNCHANGED <<addr_book, addr_selected>>]_vars

\* the overlay was opened on a non-empty book and shows the selected entry
C7_Witness ==
    /\ show_qr_overlay
    /\ last_key = Char(119)
    /\ addr_book # <<>>
    /\ address # DefaultAddress
    /\ address = addr_book[addr_selected + 1].address
    /\ addr_cursor = Len(address)

\* C8: Open -> Closed changes nothing but is_open (buffer, cursor, book
\* selection, status message, book and file keep their values), and the
\* address book changes only in a new+save whose fetch succeeded.
C8_CloseKeepsAllBookOnlyBySave ==
    /\ [][(show_qr_overlay /\ ~show_qr_overlay') => UNCHANGED overlayVars]_vars
    /\ [][addr_book' # addr_book
            => /\ show_qr_overlay
               /\ last_key' = Char(110)
               /\ calls' # <<>>
               /\ calls'[1].cmd = CmdGetNewAddress
               /\ calls'[1].status = "success"]_vars

\* the overlay was closed with a fetched address in the buffer that is in no
\* entry of the book, and with a status message set
C8_Witness ==
    /\ ~show_qr_overlay
    /\ last_key \in {Key("Esc"), Char(120)}
    /\ address # DefaultAddress
    /\ \A i \in 1..Len(addr_book) : addr_book[i].address # address
    /\ overlay_status # <<>>

\* C9: 0 <= cursor_position <= len(edit_buffer) in every state; Left and
\* Right move the cursor by one inside that range and not at its bounds,
\* Home sets it to 0 and End to len(edit_buffer); none changes the buffer.
C9_CursorWithinBuffer ==
    /\ [](addr_cursor >= 0 /\ addr_cursor <= Len(address))
    /\ [][/\ OverlayLeft =>
                addr_cursor' = (IF addr_cursor > 0 THEN addr_cursor - 1 ELSE addr_cursor)
          /\ OverlayRight =>
                addr_cursor' =
                    (IF addr_cursor < Len(address) THEN addr_cursor + 1 ELSE addr_cursor)
          /\ OverlayHome => addr_cursor' = 0
          /\ OverlayEnd => addr_cursor' = Len(address)
          /\ (OverlayLeft \/ OverlayRight \/ OverlayHome \/ OverlayEnd)
                => address' = address]_vars

\* Left moved the cursor to a position strictly inside the buffer
C9_Witness ==
    /\ show_qr_overlay
    /\ last_key = Key("Left")
    /\ addr_cursor > 0
    /\ addr_cursor < Len(address)

\* C10: typing a non-control, non-space character that is no overlay command
\* inserts exactly that character at the cursor and leaves the cursor right
\* after it, for every character and for repeated insertions; typing a space
\* changes neither the buffer nor the cursor.
C10_TypingInsertsAtCursor ==
    [][OverlayType =>
          LET c == last_key'.ch
          IN  IF ~IsControl(c) /\ c # 32
              THEN /\ pc' = "running"
                   /\ address' = SubSeq(address, 1, addr_cursor) \o EncodeUtf8(c)
                                   \o SubSeq(address, addr_cursor + 1, Len(address))
                   /\ addr_cursor' = addr_cursor + Len(EncodeUtf8(c))
              ELSE UNCHANGED <<address, addr_cursor>>]_vars

\* s without the one whole character that occupies bytes from+1 .. to
WithoutChar(s, from, to) ==
    IF /\ 0 <= from /\ from < to /\ to <= Len(s)
       /\ IsCharBoundary(s, from)
       /\ Utf8Width(s[from + 1]) = to - from
    THEN {SubSeq(s, 1, from) \o SubSeq(s, to + 1, Len(s))}
    ELSE {}

\* C11: Backspace with the cursor past 0 removes exactly the character before
\* the cursor and moves the cursor back by one, and changes nothing at 0;
\* Delete with the cursor before the end removes exactly the character at the
\* cursor and keeps the cursor, and changes nothing at the end; neither
\* touches the address book or its selection, and the session goes on.
C11_BackspaceDeleteRemoveOne ==
    [][/\ OverlayBackspace =>
            /\ UNCHANGED <<addr_book, addr_selected>>
            /\ IF addr_cursor > 0
               THEN /\ pc' = "running"
                    /\ \E w \in 1..4 :
                          address' \in WithoutChar(address, addr_cursor - w, addr_cursor)
                    /\ addr_cursor' = addr_cursor - 1
               ELSE UNCHANGED <<address, addr_cursor>>
       /\ OverlayDelete =>
            /\ UNCHANGED <<addr_book, addr_selected>>
            /\ IF addr_cursor < Len(address)
               THEN /\ pc' = "running"
                    /\ \E w \in 1..4 :
                          address' \in WithoutChar(address, addr_cursor, addr_cursor + w)
                    /\ addr_cursor' = addr_cursor
               ELSE UNCHANGED <<address, addr_cursor>>]_vars

\* C12: book navigation never reads out of bounds: with an empty book the
\* overlay's Up and Down change nothing, and with a non-empty book
\* addr_selected is an index of the book in every reachable state.
C12_BookSelectionInRange ==
    /\ [](addr_book # <<>> => (addr_selected >= 0 /\ addr_selected < Len(addr_book)))
    /\ [][((OverlayUp \/ OverlayDown) /\ addr_book = <<>>)
            => (UNCHANGED overlayVars /\ pc' = "running")]_vars

\* Down was pressed on the last of two entries, the second of them added by
\* new+save in this session
C12_Witness ==
    /\ show_qr_overlay
    /\ last_key = Key("Down")
    /\ pc = "running"
    /\ Len(addr_book) = 2
    /\ addr_selected = 1
    /\ overlay_status # <<>>

\* C13: an overlay Up or Down that moves addr_selected moves it by exactly
\* one, replaces the buffer by the newly selected entry's address and puts the
\* cursor at its end; Up at index 0 and Down at the last index leave the
\* selection, the buffer and the cursor unchanged.
C13_BookMoveReplacesBuffer ==
    [][/\ OverlayUp =>
            IF addr_book # <<>> /\ addr_selected > 0
            THEN /\ pc' = "running"
                 /\ addr_selected' = addr_selected - 1
                 /\ address' = addr_book[addr_selected' + 1].address
                 /\ addr_cursor' = Len(address')
            ELSE UNCHANGED <<addr_selected, address, addr_cursor>>
       /\ OverlayDown =>
            IF addr_book # <<>> /\ addr_selected < Len(addr_book) - 1
            THEN /\ pc' = "running"
                 /\ addr_selected' = addr_selected + 1
                 /\ address' = addr_book[addr_selected' + 1].address
                 /\ addr_cursor' = Len(address')
            ELSE UNCHANGED <<addr_selected, address, addr_cursor>>
       /\ (OverlayUp \/ OverlayDown) => UNCHANGED addr_book]_vars

\* Up moved the selection from the second entry to the first and the buffer
\* shows the first entry, which differs from the second
C13_Witness ==
    /\ show_qr_overlay
    /\ last_key = Key("Up")
    /\ pc = "running"
    /\ Len(addr_book) = 2
    /\ addr_selected = 0
    /\ address = addr_book[1].address
    /\ address # addr_book[2].address
    /\ addr_cursor = Len(address)

\* C14: 'g' fetches a new address without saving.  When the executor
\* succeeds the buffer becomes the trimmed result, the cursor is at its end
\* and a status message is set; when the call fails or the command exits with
\* a non-zero status an error status message is set and the buffer and the
\* cursor are untouched.  The book, its selection and the file never change.
C14_FetchKeepsBufferOnFailure ==
    [][OverlayFetch =>
          /\ pc' = "running"
          /\ UNCHANGED <<addr_book, addr_selected, file>>
          /\ overlay_status' # <<>>
          /\ overlay_status'[1].age = 0
          /\ IF calls'[1].status = "success"
             THEN /\ address' = Trim(FromUtf8Lossy(calls'[1].text))
                  /\ addr_cursor' = Len(address')
             ELSE /\ UNCHANGED <<address, addr_cursor>>
                  /\ overlay_status'[1].msg[1] # "New address fetched"]_vars

\* the text 'n' and 'g' take from a getnewaddress call
FetchedAddress(call) == Trim(FromUtf8Lossy(call.text))

\* the call succeeded and its trimmed result is valid for some network
FetchedValid(call) ==
    call.status = "success" /\ check_address(FetchedAddress(call)).class = "ValidAny"

\* the status message shown is the literal lit
StatusIs(lit) ==
    overlay_status # <<>> /\ overlay_status[1].age = 0 /\ overlay_status[1].msg[1] = lit

\* C15: new+save with a trimmed result that is valid for some network appends
\* exactly one entry with that address at the end of the book, writes the
\* whole book to the file (or reports that the save failed, C17), selects the
\* new last entry and shows it in the buffer with the cursor at its end.
C15_ValidResultIsAppendedAndSaved ==
    [][(OverlayNewSave /\ FetchedValid(calls'[1])) =>
          /\ pc' = "running"
          /\ Len(addr_book') = Len(addr_book) + 1
          /\ SubSeq(addr_book', 1, Len(addr_book)) = addr_book
          /\ addr_book'[Len(addr_book')].address = FetchedAddress(calls'[1])
          /\ (file' = JsonFile(addr_book') \/ StatusIs("Save failed: ")')
          /\ addr_selected' = Len(addr_book') - 1
          /\ address' = FetchedAddress(calls'[1])
          /\ addr_cursor' = Len(address')]_vars

\* new+save added a second entry to a book of one, and the file holds both
C15_Witness ==
    /\ show_qr_overlay
    /\ last_key = Char(110)
    /\ StatusIs("New address saved")
    /\ Len(addr_book) = 2
    /\ addr_book[1].address # addr_book[2].address
    /\ addr_selected = 1
    /\ address = addr_book[2].address
    /\ file = JsonFile(addr_book)

\* C16: new+save whose result is not network-valid, an executor failure
\* included, leaves the book, the file, the selection, the buffer and the
\* cursor unchanged and only sets an error status message.
C16_InvalidResultChangesNothing ==
    [][(OverlayNewSave /\ ~FetchedValid(calls'[1])) =>
          /\ pc' = "running"
          /\ UNCHANGED <<addr_book, file, addr_selected, address, addr_cursor>>
          /\ \/ StatusIs("RPC returned invalid address")'
             \/ StatusIs("getnewaddress error: ")']_vars

\* new+save ran while the command exited with a non-zero status
C16_Witness ==
    /\ show_qr_overlay
    /\ last_key = Char(110)
    /\ calls # <<>>
    /\ calls[1].status = "nonzero"
    /\ StatusIs("RPC returned invalid address")
    /\ address # FetchedAddress(calls[1])

\* C17: new+save with a valid address whose save fails keeps the new entry in
\* the book, selected and shown in the buffer; the status message is the
\* save failure and the session continues.
C17_FailedSaveKeepsEntry ==
    [][(OverlayNewSave /\ FetchedValid(calls'[1]) /\ file' # JsonFile(addr_book')) =>
          /\ pc' = "running"
          /\ addr_book' # addr_book
          /\ Len(addr_book') = Len(addr_book) + 1
          /\ addr_book'[Len(addr_book')].address = FetchedAddress(calls'[1])
          /\ addr_selected' = Len(addr_book') - 1
          /\ address' = FetchedAddress(calls'[1])
          /\ StatusIs("Save failed: ")']_vars

\* new+save could not write the file: the entry is in the book and not on disk
C17_Witness ==
    /\ show_qr_overlay
    /\ last_key = Char(110)
    /\ pc = "running"
    /\ StatusIs("Save failed: ")
    /\ addr_book # <<>>
    /\ file # JsonFile(addr_book)
    /\ addr_selected = Len(addr_book) - 1
    /\ address = addr_book[Len(addr_book)].address

\* a is a prefix of b
IsPrefix(a, b) == Len(a) <= Len(b) /\ SubSeq(b, 1, Len(a)) = a

\* C18: the file always holds the whole in-memory book as of the last
\* successful save: a successful save makes the file equal the whole current
\* book, a failed save and every other step leave the file as it was, and
\* what the file holds is a prefix of the in-memory book.
C18_FileIsBookAtLastSave ==
    /\ [](file.kind = "json" => IsPrefix(file.entries, addr_book))
    /\ [][IF OverlayNewSave /\ StatusIs("New address saved")'
          THEN file' = JsonFile(addr_book')
          ELSE file' = file]_vars

\* C19: the in-memory address book is append-only: no step makes it shorter
\* or changes an entry it holds; the only change is one entry appended at the
\* end.
C19_BookAppendOnly ==
    [][\/ addr_book' = addr_book
       \/ /\ Len(addr_book') = Len(addr_book) + 1
          /\ SubSeq(addr_book', 1, Len(addr_book)) = addr_book]_vars

\* the overlay was closed on a book whose first entry was loaded at startup
\* and whose second entry was appended in this session
C19_Witness ==
    /\ ~show_qr_overlay
    /\ last_key \in {Key("Esc"), Char(120)}
    /\ Len(addr_book) = 2
    /\ addr_book[1].created_at = 0
    /\ addr_book[2].created_at = 1

\* the calls of a refresh after the one for the selected command
InfoCalls(log) == SubSeq(log, 2, Len(log))

\* some call for the node panel did not succeed
NodeFetchFailed(log) ==
    \E i \in 1..Len(InfoCalls(log)) :
        /\ InfoCalls(log)[i].cmd # CmdGetWalletInfo
        /\ InfoCalls(log)[i].status # "success"

\* the call for the wallet panel did not succeed
WalletFetchFailed(log) ==
    \E i \in 1..Len(InfoCalls(log)) :
        /\ InfoCalls(log)[i].cmd = CmdGetWalletInfo
        /\ InfoCalls(log)[i].status # "success"

\* C20: a refresh that re-ran the selected command fetches node info and
\* wallet info independently: the wallet fetch runs whatever the node fetch
\* did, a fetch whose executor call fails or exits with a non-zero status
\* leaves that panel's previous text in place, and the "Failed to fetch"
\* placeholders never appear after the first load.
C20_RefreshKeepsStaleInfo ==
    [][(Refresh /\ pc' = "running") =>
          /\ \E i \in 1..Len(InfoCalls(calls')) :
                InfoCalls(calls')[i].cmd = CmdGetWalletInfo
          /\ NodeFetchFailed(calls') => node_info' = node_info
          /\ WalletFetchFailed(calls') => wallet_info' = wallet_info
          /\ node_info' = FailedNodeInfo => node_info = FailedNodeInfo
          /\ wallet_info' = FailedWalletInfo => wallet_info = FailedWalletInfo]_vars

\* C21: after startup no sequence of accepted keys and no outcome of a
\* collaborator makes the session panic.
C21_NoPanicAfterStartup == pc # "panic"

\* the dashboard keys that no match arm binds: the only keys left for a
\* mask toggle
UnboundDashKeys == {Key("Backspace"), Char(110)}

\* C22: a mask-toggle key in dashboard focus flips the masking of the wallet
\* panel: pressed while the panel shows a wallet text with digits, it changes
\* what the panel shows (digits replaced, or the original text again) and
\* leaves the stored wallet_info as it was.
C22_MaskToggleChangesWalletPanel ==
    [][(DashKey /\ last_key' \in UnboundDashKeys /\ wallet_info # FailedWalletInfo)
          => /\ wallet_info' = wallet_info
             /\ wallet_info_paragraph' # wallet_info_paragraph]_vars

\* a key handler that sets a status message ran
StatusKey == OverlayFetch \/ OverlayNewSave \/ OverlayCopy

\* C23: a status message is rendered, while the overlay is open, exactly
\* while less than 2 seconds have passed since it was set; no key other than
\* fetch, fetch+save and copy changes or clears it, time only ages it, and
\* those three replace it by one message with a fresh timestamp, so at most
\* the most recent message is shown.
C23_StatusShownForTwoSeconds ==
    /\ [](/\ Len(overlay_status) <= 1
          /\ Len(status_line) <= 1
          /\ status_line # <<>> <=>
                /\ show_qr_overlay
                /\ overlay_status # <<>>
                /\ overlay_status[1].age < STATUS_MS
          /\ status_line # <<>> => status_line[1] = overlay_status[1].msg)
    /\ [][/\ ((OverlayKey \/ DashKey) /\ ~StatusKey) => UNCHANGED overlay_status
          /\ StatusKey =>
                /\ pc' = "running"
                /\ Len(overlay_status') = 1
                /\ overlay_status'[1].age = 0
                /\ status_line' = <<overlay_status'[1].msg>>
          /\ Elapse =>
                /\ Len(overlay_status') = Len(overlay_status)
                /\ \A i \in 1..Len(overlay_status) :
                      /\ overlay_status'[i].msg = overlay_status[i].msg
                      /\ overlay_status'[i].age >= overlay_status[i].age]_vars

\* the overlay was closed and reopened after the message's 2 seconds: the
\* message is still stored and no longer rendered
C23_Witness ==
    /\ show_qr_overlay
    /\ last_key = Char(119)
    /\ overlay_status # <<>>
    /\ overlay_status[1].age >= STATUS_MS
    /\ status_line = <<>>

\* C24: a key is dispatched (to the overlay or to the dashboard) only when
\* at least 150 ms have passed since the last accepted key; a key that comes
\* earlier is dropped and changes nothing, the last-accepted time included;
\* every accepted key, bound or not, whose handler returns to the loop sets
\* the last-accepted time to now.
C24_Debounce ==
    [][/\ (OverlayKey \/ DashKey) =>
            /\ input_age >= DEBOUNCE_MS
            /\ last_key'.code \notin {"startup", "timeout", "io_error"}
            /\ pc' = "running" => input_age' = 0
       /\ KeyDropped => UNCHANGED vars
       /\ (input_age < DEBOUNCE_MS /\ ~Elapse /\ ~LoopIoError)
            => UNCHANGED <<dashVars, show_qr_overlay, overlayVars, input_age, pc>>]_vars

\* a key that no dashboard arm binds was accepted and restarted the interval
C24_Witness ==
    /\ pc = "running"
    /\ ~show_qr_overlay
    /\ last_key \in UnboundDashKeys
    /\ input_age = 0

\* the inputs the render of the output panel is tried on: outputs of up to
\* MaxRender lines, offsets up to one past the longest of them, and panel
\* heights from 0 to more than the borders and the longest output need
RenderOutputs == {[i \in 1..n |-> <<48 + i>>] : n \in 0..MaxRender}

RenderOffsets == 0..(MaxRender + 1)

RenderHeights == 0..(MaxRender + 4)

\* the text whose lines are ls
RECURSIVE JoinLines(_)
JoinLines(ls) ==
    IF ls = <<>> THEN <<>>
    ELSE IF Len(ls) = 1 THEN ls[1]
    ELSE ls[1] \o <<10>> \o JoinLines(Tail(ls))

\* the draw of the output panel on every output, offset and panel height:
\* the dashboard with the overlay closed, and a terminal that is resized
InitRender ==
    \E ls \in RenderOutputs, off \in RenderOffsets, h \in RenderHeights :
        /\ scenario = "dashboard"
        /\ commands = <<CmdGetBlockCount>>
        /\ selected = 0
        /\ output = JoinLines(ls)
        /\ output_lines = ls
        /\ scroll_offset = off
        /\ node_info = FailedNodeInfo
        /\ wallet_info = FailedWalletInfo
        /\ show_qr_overlay = FALSE
        /\ address = DefaultAddress
        /\ addr_cursor = Len(DefaultAddress)
        /\ overlay_status = <<>>
        /\ addr_book = <<>>
        /\ addr_selected = 0
        /\ file = AbsentFile
        /\ height = h
        /\ input_age = 0
        /\ pc = "running"
        /\ terminal = TerminalSetUp
        /\ last_key = NoKey("startup")
        /\ calls = <<>>

RenderSpec == InitRender /\ [][Resize]_vars

\* the lines offset .. min(len, offset + vh) of an output, counted from 0
Window(lines, offset, vh) ==
    SubSeq(lines, offset + 1, Min(Len(lines), offset + vh))

\* C25: the output panel shows exactly the lines scroll_offset ..
\* min(len, scroll_offset + visible_height) of the output: the tail from
\* scroll_offset when fewer than visible_height lines remain, nothing when
\* scroll_offset is at or past the end or visible_height is 0; the slice the
\* draw takes is always within the output.
C25_RenderShowsWindow ==
    LET r == VisibleRange(output_lines, scroll_offset, visible_height)
    IN  /\ visible_lines = Window(output_lines, scroll_offset, visible_height)
        /\ r.lo <= r.hi /\ r.hi <= Len(output_lines)
        /\ visible_lines = SubSeq(output_lines, r.lo + 1, r.hi)
        /\ Len(visible_lines) <= visible_height
        /\ scroll_offset >= Len(output_lines) => visible_lines = <<>>

\* fewer lines than the panel holds remain after the offset: the panel shows
\* the tail
C25_Witness ==
    /\ scroll_offset > 0
    /\ scroll_offset < Len(output_lines)
    /\ Len(output_lines) - scroll_offset < visible_height
    /\ visible_lines = SubSeq(output_lines, scroll_offset + 1, Len(output_lines))

\* C26: the teardown matches the setup on every exit path: when the session
\* has ended by a clean quit or by an error propagated out of the loop, raw
\* mode is disabled and the alternate screen is left.
C26_TeardownOnEveryExit ==
    pc \in {"quit", "error"} => terminal = TerminalRestored

====
